---- MODULE Spec2Model ----
(***************************************************************************)
(* Model of convert.py: slice_image (load a 3D volume, rescale it to 8-bit *)
(* and write every slice of the three planes as a PNG) and process_dataset *)
(* (walk a dataset tree, match FLAIR / DWI files, mirror the directory     *)
(* layout under the output root and hand each match to slice_image).       *)
(*                                                                         *)
(* A path is a sequence of components; a component (a directory name or a  *)
(* file name) is a sequence of string tokens, so that suffix tests, the    *)
(* removal of ".nii.gz" and the zero-padded slice index are computed on    *)
(* the pieces of the name and not assumed.                                 *)
(***************************************************************************)
EXTENDS Integers, Sequences, FiniteSets, TLC

VARIABLES
    inputIsDir,       \* os.path.isdir(input_root)
    inputRoot,        \* input_root, a path
    tree,             \* the files os.walk yields, in walk order: [dir, name, content]
    run,              \* "first" or "second" invocation of process_dataset
    wpc,              \* position of process_dataset
    idx,              \* index in tree of the next file the walk visits
    spc,              \* position of slice_image ("idle": not running)
    input_path,       \* slice_image's input_path
    output_dir_base,  \* slice_image's output_dir_base
    np_image,         \* slice_image's np_image: [dtype, data]
    planeIdx,         \* index in planes of the plane being written
    sliceIdx,         \* i of the slice loop
    dirs,             \* directories of the output file system
    files,            \* image files of the output file system: pairs <<path, pixels>>
    log,              \* what was printed, in order
    dispatched,       \* history: the calls of slice_image made by the walk
    failures,         \* history: number of I/O failures the environment injected
    firstRun          \* history: dirs and files as the first run left them

vars == <<inputIsDir, inputRoot, tree, run, wpc, idx, spc, input_path,
          output_dir_base, np_image, planeIdx, sliceIdx, dirs, files, log,
          dispatched, failures, firstRun>>

-----------------------------------------------------------------------------
(* Bounds of the model *)

\* largest extent of a volume along each axis
MaxDim == 2
\* length of the sample pattern a volume is filled with
NumSamples == 3
\* largest number of files in the walked tree
MaxFiles == 2
\* largest number of I/O failures injected in a behaviour
MaxFailures == 1

-----------------------------------------------------------------------------
(* Sample types and their arithmetic *)

Dtypes == {"int8", "uint8", "float64"}

IsInteger(dtype) == dtype \in {"int8", "uint8"}

TypeMin(dtype) == CASE dtype = "int8" -> -128 [] dtype = "uint8" -> 0

TypeMax(dtype) == CASE dtype = "int8" -> 127 [] dtype = "uint8" -> 255

TypeSpan(dtype) == TypeMax(dtype) - TypeMin(dtype) + 1

\* the value a fixed-width integer type keeps of the exact result x
Wrap(dtype, x) ==
    IF IsInteger(dtype)
    THEN ((x - TypeMin(dtype)) % TypeSpan(dtype)) + TypeMin(dtype)
    ELSE x

\* a - b as numpy computes it on two values of the same sample type
Subtract(dtype, a, b) == Wrap(dtype, a - b)

\* sample values the volumes of the model are filled with
SampleValues(dtype) ==
    CASE dtype = "int8"    -> {-128, 0, 2, 7, 100}
      [] dtype = "uint8"   -> {0, 2, 7, 255}
      [] dtype = "float64" -> {-300, 0, 7, 300}

-----------------------------------------------------------------------------
(* Volumes: data[d][h][w], axes (depth, height, width) *)

Depth(data) == Len(data)
Height(data) == Len(data[1])
Width(data) == Len(data[1][1])

Voxels(data) ==
    {<<d, h, w>> : d \in 1..Depth(data), h \in 1..Height(data), w \in 1..Width(data)}

At(data, v) == data[v[1]][v[2]][v[3]]

\* the array GetArrayFromImage returns for an image of the given shape whose
\* samples, in storage order, repeat the given pattern
MakeVolume(shape, samples) ==
    [d \in 1..shape[1] |->
        [h \in 1..shape[2] |->
            [w \in 1..shape[3] |->
                samples[((((d - 1) * shape[2] + (h - 1)) * shape[3] + (w - 1))
                          % Len(samples)) + 1]]]]

SetMin(S) == CHOOSE x \in S : \A y \in S : x <= y
SetMax(S) == CHOOSE x \in S : \A y \in S : x >= y

\* np.min(np_image), np.max(np_image)
min_val(data) == SetMin({At(data, v) : v \in Voxels(data)})
max_val(data) == SetMax({At(data, v) : v \in Voxels(data)})

\* a variant of AsUint8 that rounds to the nearest integer
AsUint8_Rounded(num, den) == ((2 * num + den) \div (2 * den)) % 256

\* astype(np.uint8) of the non-negative quotient num / den: the fraction is dropped
AsUint8(num, den) == (num \div den) % 256

\* (np_image - min_val) / (max_val - min_val) * 255.0 followed by astype(np.uint8),
\* for one sample v; the difference is taken in the sample type, the division and
\* the multiplication in float64
RescaleSample(dtype, v, lo, hi) ==
    AsUint8(Subtract(dtype, v, lo) * 255, Subtract(dtype, hi, lo))

\* the test of line 28
HasRange(dtype, lo, hi) == Subtract(dtype, hi, lo) > 0

\* a variant of ZerosLike that leaves the samples as they are
ZerosLike_Unchanged(data) == data

\* np.zeros_like(np_image)
ZerosLike(data) ==
    [d \in 1..Depth(data) |-> [h \in 1..Height(data) |-> [w \in 1..Width(data) |-> 0]]]

\* step 3 of slice_image: the uint8 array written out
Normalize(img) ==
    LET lo == min_val(img.data)
        hi == max_val(img.data)
    IN  IF HasRange(img.dtype, lo, hi)
        THEN [dtype |-> "uint8",
              data  |-> [d \in 1..Depth(img.data) |->
                          [h \in 1..Height(img.data) |->
                            [w \in 1..Width(img.data) |->
                              RescaleSample(img.dtype, img.data[d][h][w], lo, hi)]]]]
        ELSE [dtype |-> "uint8", data |-> ZerosLike(img.data)]

-----------------------------------------------------------------------------
(* Planes and slices *)

planes == <<"axial", "coronal", "sagittal">>

\* np_image.shape[0], shape[1], shape[2] for the plane
num_slices(plane, data) ==
    CASE plane = "axial"    -> Depth(data)
      [] plane = "coronal"  -> Height(data)
      [] plane = "sagittal" -> Width(data)

\* a variant of slice_2d whose sagittal slice is transposed
slice_2d_Transposed(plane, data, i) ==
    CASE plane = "axial"    -> data[i + 1]
      [] plane = "coronal"  -> [d \in 1..Depth(data) |-> data[d][i + 1]]
      [] plane = "sagittal" ->
            [h \in 1..Height(data) |-> [d \in 1..Depth(data) |-> data[d][h][i + 1]]]

\* np_image[i, :, :], np_image[:, i, :], np_image[:, :, i] (i counts from 0)
slice_2d(plane, data, i) ==
    CASE plane = "axial"    -> data[i + 1]
      [] plane = "coronal"  -> [d \in 1..Depth(data) |-> data[d][i + 1]]
      [] plane = "sagittal" ->
            [d \in 1..Depth(data) |-> [h \in 1..Height(data) |-> data[d][h][i + 1]]]

DigitChars == <<"0", "1", "2", "3", "4", "5", "6", "7", "8", "9">>

RECURSIVE Decimal(_)
Decimal(n) ==
    IF n < 10 THEN <<DigitChars[n + 1]>>
    ELSE Decimal(n \div 10) \o <<DigitChars[(n % 10) + 1]>>

RECURSIVE ZeroPad(_, _)
ZeroPad(s, width) == IF Len(s) >= width THEN s ELSE ZeroPad(<<"0">> \o s, width)

\* f"slice_{i:03d}.png"
SliceFileName(i) == <<"slice_">> \o ZeroPad(Decimal(i), 3) \o <<".png">>

-----------------------------------------------------------------------------
(* Paths and the output file system *)

\* os.path.join(a, b) for a relative b
Join(a, b) == a \o b

\* the path the operating system resolves: "." components name the same directory
Resolve(path) == SelectSeq(path, LAMBDA c : c # <<".">>)

Ancestors(path) == {SubSeq(path, 1, k) : k \in 1..Len(path)}

\* a variant of WalkerExistOk: os.makedirs without exist_ok
WalkerExistOk_Missing == FALSE

\* exist_ok of the os.makedirs call of line 109, and of line 39
WalkerExistOk == TRUE
PlaneExistOk == TRUE

\* os.makedirs(path, exist_ok) raises FileExistsError
MakedirsRaises(ds, path, exist_ok) == ~exist_ok /\ Resolve(path) \in ds

\* the directories after os.makedirs(path) returned: path and every missing ancestor
Makedirs(ds, path) == ds \cup Ancestors(Resolve(path))

\* the files after img.save(path): the file is created or replaced
SaveImage(fs, path, img) ==
    {e \in fs : e[1] # Resolve(path)} \cup {<<Resolve(path), img>>}

EndsWith(s, suffix) ==
    /\ Len(s) >= Len(suffix)
    /\ SubSeq(s, Len(s) - Len(suffix) + 1, Len(s)) = suffix

\* 'name' in root.split(os.sep)
HasComponent(root, name) == \E k \in 1..Len(root) : root[k] = <<name>>

\* a variant of is_flair that accepts either condition alone
is_flair_Either(root, filename) ==
    HasComponent(root, "anat") \/ EndsWith(filename, <<"_FLAIR", ".nii.gz">>)

\* line 93
is_flair(root, filename) ==
    HasComponent(root, "anat") /\ EndsWith(filename, <<"_FLAIR", ".nii.gz">>)

\* line 94
is_dwi(root, filename) ==
    HasComponent(root, "dwi") /\ EndsWith(filename, <<"_dwi", ".nii.gz">>)

\* os.path.relpath(root, input_root) for a root the walk of input_root yields
relative_path(root, input_root) ==
    IF root = input_root THEN << <<".">> >>
    ELSE SubSeq(root, Len(input_root) + 1, Len(root))

\* filename.replace(".nii.gz", ""): every occurrence is removed
base_filename(filename) == SelectSeq(filename, LAMBDA t : t # ".nii.gz")

\* lines 101-107
slice_output_folder(output_root, root, input_root, filename) ==
    Join(Join(output_root, relative_path(root, input_root)),
         << base_filename(filename) \o <<"_slices">> >>)

\* OUTPUT_SLIDE_ROOT
OutputRoot == << <<"slide">> >>

\* root and file_path of a file of the tree
RootOf(f) == Join(inputRoot, f.dir)
FilePath(f) == Join(RootOf(f), <<f.name>>)

\* what sitk.ReadImage finds at a path of the tree
ContentAt(path) ==
    tree[CHOOSE k \in 1..Len(tree) : FilePath(tree[k]) = path].content

-----------------------------------------------------------------------------
(* slice_image *)

NoImage == [dtype |-> "none", data |-> <<>>]

\* slice_image returns: its locals are gone
Return ==
    /\ spc' = "idle"
    /\ input_path' = <<>>
    /\ output_dir_base' = <<>>
    /\ np_image' = NoImage
    /\ planeIdx' = 0
    /\ sliceIdx' = 0

\* a variant of HandleException without the try block: the exception leaves
\* slice_image and ends process_dataset
HandleException_Propagates ==
    /\ Return
    /\ wpc' = "aborted"
    /\ UNCHANGED <<dirs, files, log>>

\* a variant of HandleException that removes what the failed call had written
HandleException_RollsBack ==
    /\ log' = Append(log, <<"error", input_path>>)
    /\ Return
    /\ files' = {e \in files :
                   SubSeq(e[1], 1, Len(Resolve(output_dir_base))) # Resolve(output_dir_base)}
    /\ UNCHANGED <<dirs, wpc>>

\* lines 67-68: the exception is caught, the error printed, and slice_image
\* returns normally to its caller; nothing written is removed
HandleException ==
    /\ log' = Append(log, <<"error", input_path>>)
    /\ Return
    /\ UNCHANGED <<dirs, files, wpc>>

\* line 18 on a file the library cannot read: the exception reaches line 67
ReadImageFails ==
    /\ spc = "read"
    /\ ContentAt(input_path).corrupt
    /\ HandleException
    /\ UNCHANGED <<inputIsDir, inputRoot, tree, run, idx, dispatched, failures, firstRun>>

\* lines 18-23
ReadImage ==
    /\ spc = "read"
    /\ ~ContentAt(input_path).corrupt
    /\ LET c == ContentAt(input_path)
       IN  np_image' = [dtype |-> c.dtype, data |-> MakeVolume(c.shape, c.samples)]
    /\ spc' = "normalize"
    /\ UNCHANGED <<inputIsDir, inputRoot, tree, run, wpc, idx, input_path,
                   output_dir_base, planeIdx, sliceIdx, dirs, files, log,
                   dispatched, failures, firstRun>>

\* lines 26-34, then the plane loop starts
NormalizeImage ==
    /\ spc = "normalize"
    /\ np_image' = Normalize(np_image)
    /\ spc' = "plane"
    /\ planeIdx' = 1
    /\ UNCHANGED <<inputIsDir, inputRoot, tree, run, wpc, idx, input_path,
                   output_dir_base, sliceIdx, dirs, files, log, dispatched,
                   failures, firstRun>>

\* line 38
plane_output_dir == Join(output_dir_base, << <<planes[planeIdx]>> >>)

\* lines 38-39, then the slice loop of the plane starts
MakePlaneDir ==
    /\ spc = "plane"
    /\ IF MakedirsRaises(dirs, plane_output_dir, PlaneExistOk)
       THEN HandleException
       ELSE /\ dirs' = Makedirs(dirs, plane_output_dir)
            /\ spc' = "slice"
            /\ sliceIdx' = 0
            /\ UNCHANGED <<wpc, input_path, output_dir_base, np_image, planeIdx,
                           files, log>>
    /\ UNCHANGED <<inputIsDir, inputRoot, tree, run, idx, dispatched, failures, firstRun>>

\* one turn of a slice loop (lines 44-47, 52-55, 60-63); after the last slice of
\* a plane the next plane starts, and after the last plane line 65 prints and
\* slice_image returns
SaveSlice ==
    /\ spc = "slice"
    /\ LET plane == planes[planeIdx]
           img   == slice_2d(plane, np_image.data, sliceIdx)
           path  == Join(plane_output_dir, <<SliceFileName(sliceIdx)>>)
           lastSlice == sliceIdx + 1 = num_slices(plane, np_image.data)
       IN  /\ files' = SaveImage(files, path, img)
           /\ IF ~lastSlice
              THEN /\ sliceIdx' = sliceIdx + 1
                   /\ UNCHANGED <<spc, input_path, output_dir_base, np_image,
                                  planeIdx, log>>
              ELSE IF planeIdx < Len(planes)
              THEN /\ planeIdx' = planeIdx + 1
                   /\ spc' = "plane"
                   /\ UNCHANGED <<sliceIdx, input_path, output_dir_base, np_image, log>>
              ELSE /\ log' = Append(log, <<"success", output_dir_base>>)
                   /\ Return
    /\ UNCHANGED <<inputIsDir, inputRoot, tree, run, wpc, idx, dirs, dispatched,
                   failures, firstRun>>

\* normalization, os.makedirs or img.save raises (out of memory, no permission,
\* disk full): the exception reaches line 67
SliceStepFails ==
    /\ spc \in {"normalize", "plane", "slice"}
    /\ failures < MaxFailures
    /\ failures' = failures + 1
    /\ HandleException
    /\ UNCHANGED <<inputIsDir, inputRoot, tree, run, idx, dispatched, firstRun>>

-----------------------------------------------------------------------------
(* process_dataset *)

\* a variant of InputRejected without the isdir test
InputRejected_Never == FALSE

\* line 79
InputRejected == ~inputIsDir

\* lines 79-84
CheckInput ==
    /\ wpc = "check"
    /\ IF InputRejected
       THEN /\ log' = Append(log, <<"not found", inputRoot>>)
            /\ wpc' = "rejected"
            /\ UNCHANGED idx
       ELSE /\ log' = Append(log, <<"starting", inputRoot>>)
            /\ wpc' = "walk"
            /\ idx' = 1
    /\ UNCHANGED <<inputIsDir, inputRoot, tree, run, spc, input_path,
                   output_dir_base, np_image, planeIdx, sliceIdx, dirs, files,
                   dispatched, failures, firstRun>>

\* line 96
IsTarget(f) == is_flair(RootOf(f), f.name) \/ is_dwi(RootOf(f), f.name)

FolderOf(f) == slice_output_folder(OutputRoot, RootOf(f), inputRoot, f.name)

\* one turn of the file loop for a file that is no target (lines 88-96)
SkipFile ==
    /\ wpc = "walk"
    /\ spc = "idle"
    /\ idx <= Len(tree)
    /\ ~IsTarget(tree[idx])
    /\ idx' = idx + 1
    /\ UNCHANGED <<inputIsDir, inputRoot, tree, run, wpc, spc, input_path,
                   output_dir_base, np_image, planeIdx, sliceIdx, dirs, files, log,
                   dispatched, failures, firstRun>>

\* one turn of the file loop for a target (lines 88-112), up to the call of
\* slice_image; a FileExistsError of line 109 is caught nowhere
DispatchFile ==
    /\ wpc = "walk"
    /\ spc = "idle"
    /\ idx <= Len(tree)
    /\ IsTarget(tree[idx])
    /\ LET f == tree[idx]
           folder == FolderOf(f)
       IN  /\ log' = Append(log, <<"found", FilePath(f)>>)
           /\ IF MakedirsRaises(dirs, folder, WalkerExistOk)
              THEN /\ wpc' = "aborted"
                   /\ UNCHANGED <<idx, spc, input_path, output_dir_base, dirs, dispatched>>
              ELSE /\ dirs' = Makedirs(dirs, folder)
                   /\ dispatched' = Append(dispatched,
                          [run |-> run, file |-> idx, path |-> FilePath(f), folder |-> folder])
                   /\ spc' = "read"
                   /\ input_path' = FilePath(f)
                   /\ output_dir_base' = folder
                   /\ idx' = idx + 1
                   /\ UNCHANGED wpc
    /\ UNCHANGED <<inputIsDir, inputRoot, tree, run, np_image, planeIdx, sliceIdx,
                   files, failures, firstRun>>

\* os.makedirs of line 109 raises (no permission, disk full): nothing catches it
\* and process_dataset ends with the exception
DispatchMakedirsFails ==
    /\ wpc = "walk"
    /\ spc = "idle"
    /\ idx <= Len(tree)
    /\ IsTarget(tree[idx])
    /\ failures < MaxFailures
    /\ failures' = failures + 1
    /\ log' = Append(log, <<"found", FilePath(tree[idx])>>)
    /\ wpc' = "aborted"
    /\ UNCHANGED <<inputIsDir, inputRoot, tree, run, idx, spc, input_path,
                   output_dir_base, np_image, planeIdx, sliceIdx, dirs, files,
                   dispatched, firstRun>>

\* line 114
Complete ==
    /\ wpc = "walk"
    /\ spc = "idle"
    /\ idx > Len(tree)
    /\ log' = Append(log, <<"complete", <<>>>>)
    /\ wpc' = "complete"
    /\ UNCHANGED <<inputIsDir, inputRoot, tree, run, idx, spc, input_path,
                   output_dir_base, np_image, planeIdx, sliceIdx, dirs, files,
                   dispatched, failures, firstRun>>

\* process_dataset is called again with the same arguments, on the output the
\* first call left
RunAgain ==
    /\ wpc = "complete"
    /\ run = "first"
    /\ run' = "second"
    /\ firstRun' = [dirs |-> dirs, files |-> files, log |-> log]
    /\ log' = <<>>
    /\ wpc' = "check"
    /\ idx' = 0
    /\ UNCHANGED <<inputIsDir, inputRoot, tree, spc, input_path, output_dir_base,
                   np_image, planeIdx, sliceIdx, dirs, files, dispatched, failures>>

-----------------------------------------------------------------------------
(* The dataset trees and the volumes of the model *)

Int8Pair    == [corrupt |-> FALSE, dtype |-> "int8",  shape |-> <<2, 1, 1>>, samples |-> <<0, 7>>]
Uint8Pair   == [corrupt |-> FALSE, dtype |-> "uint8", shape |-> <<1, 1, 2>>, samples |-> <<200, 2>>]
CorruptFile == [corrupt |-> TRUE,  dtype |-> "none",  shape |-> <<>>, samples |-> <<>>]

\* the files of the largest tree, in the order os.walk yields them
MasterTree == <<
    [dir |-> <<>>,
     name |-> <<"x", "_FLAIR", ".nii.gz">>, content |-> Uint8Pair],
    [dir |-> << <<"sub">>, <<"anat">> >>,
     name |-> <<"x", "_FLAIR", ".nii.gz">>, content |-> Int8Pair],
    [dir |-> << <<"sub">>, <<"anat">> >>,
     name |-> <<"x", ".nii.gz", "_FLAIR", ".nii.gz">>, content |-> Uint8Pair],
    [dir |-> << <<"sub">>, <<"anat">> >>,
     name |-> <<"x", "_T1w", ".nii.gz">>, content |-> Int8Pair],
    [dir |-> << <<"sub">>, <<"anat">> >>,
     name |-> <<"bad", "_FLAIR", ".nii.gz">>, content |-> CorruptFile],
    [dir |-> << <<"sub">>, <<"dwi">> >>,
     name |-> <<"x", "_dwi", ".nii.gz">>, content |-> Uint8Pair],
    [dir |-> << <<"sub">>, <<"dwi">> >>,
     name |-> <<"x", "_FLAIR", ".nii.gz">>, content |-> Int8Pair],
    [dir |-> << <<"anat">>, <<"dwi">> >>,
     name |-> <<"x", "_dwi", ".nii.gz">>, content |-> Int8Pair] >>

\* the elements of seq at the indices in S, in order
SubseqAt(seq, S) ==
    LET nth(i) == CHOOSE x \in S : Cardinality({y \in S : y < x}) = i - 1
    IN  [i \in 1..Cardinality(S) |-> seq[nth(i)]]

Trees ==
    {SubseqAt(MasterTree, S) :
        S \in {T \in SUBSET (1..Len(MasterTree)) : Cardinality(T) <= MaxFiles}}

InputRoots == {<< <<"ds004146">> >>, << <<"anat">> >>}

NoSnapshot == [dirs |-> {}, files |-> {}, log |-> <<>>]

\* process_dataset is about to run on an input root that is a directory holding
\* one of the trees, or that does not exist; the output root is empty
Init ==
    /\ inputIsDir \in BOOLEAN
    /\ inputRoot \in InputRoots
    /\ tree \in (IF inputIsDir THEN Trees ELSE {<<>>})
    /\ run = "first"
    /\ wpc = "check"
    /\ idx = 0
    /\ spc = "idle"
    /\ input_path = <<>>
    /\ output_dir_base = <<>>
    /\ np_image = NoImage
    /\ planeIdx = 0
    /\ sliceIdx = 0
    /\ dirs = {}
    /\ files = {}
    /\ log = <<>>
    /\ dispatched = <<>>
    /\ failures = 0
    /\ firstRun = NoSnapshot

Next ==
    \/ CheckInput
    \/ SkipFile
    \/ DispatchFile
    \/ DispatchMakedirsFails
    \/ Complete
    \/ RunAgain
    \/ ReadImage
    \/ ReadImageFails
    \/ NormalizeImage
    \/ MakePlaneDir
    \/ SaveSlice
    \/ SliceStepFails

Spec == Init /\ [][Next]_vars

-----------------------------------------------------------------------------
(* slice_image called on its own, on every volume of the bounds *)

Shapes == (1..MaxDim) \X (1..MaxDim) \X (1..MaxDim)

\* sample patterns of the volumes of every shape: mixed and uniform intensities
SlicePatterns ==
    {[dtype |-> "float64", samples |-> <<-300, 0, 7, 300, 150>>],
     [dtype |-> "int8",    samples |-> <<0, 2, 7>>],
     [dtype |-> "int8",    samples |-> <<-128>>],
     [dtype |-> "uint8",   samples |-> <<255>>],
     [dtype |-> "float64", samples |-> <<0>>]}

\* volumes of every shape, filled with one of the patterns
ShapedVolumes ==
    {[corrupt |-> FALSE, dtype |-> p.dtype, shape |-> sh, samples |-> p.samples] :
        sh \in Shapes, p \in SlicePatterns}

\* rows and columns of NumSamples voxels holding every combination of the
\* sample values of a type
SampledVolumes ==
    UNION {{[corrupt |-> FALSE, dtype |-> t, shape |-> sh, samples |-> sm] :
                sh \in {<<1, 1, NumSamples>>, <<NumSamples, 1, 1>>},
                sm \in [1..NumSamples -> SampleValues(t)]} : t \in Dtypes}

InitSlice ==
    /\ inputIsDir = TRUE
    /\ inputRoot = << <<"ds004146">> >>
    /\ \E c \in ShapedVolumes \cup SampledVolumes :
          tree = << [dir |-> << <<"anat">> >>,
                        name |-> <<"vol", "_FLAIR", ".nii.gz">>, content |-> c] >>
    /\ run = "first"
    /\ wpc = "direct"
    /\ idx = 0
    /\ spc = "read"
    /\ input_path = FilePath(tree[1])
    /\ output_dir_base = << <<"out">> >>
    /\ np_image = NoImage
    /\ planeIdx = 0
    /\ sliceIdx = 0
    /\ dirs = {}
    /\ files = {}
    /\ log = <<>>
    /\ dispatched = <<>>
    /\ failures = 0
    /\ firstRun = NoSnapshot

NextSlice ==
    \/ ReadImage
    \/ NormalizeImage
    \/ MakePlaneDir
    \/ SaveSlice

SpecSlice == InitSlice /\ [][NextSlice]_vars

-----------------------------------------------------------------------------
(* Properties of slice_image, checked under SpecSlice *)

\* the volume slice_image was called on, as loaded
Loaded == MakeVolume(tree[1].content.shape, tree[1].content.samples)
LoadedType == tree[1].content.dtype
LoadedMin == min_val(Loaded)
LoadedMax == max_val(Loaded)

\* np_image holds the normalized volume
IsNormalized == spc \in {"plane", "slice"}

\* slice_image ran to line 65
SliceSucceeded == spc = "idle" /\ log = << <<"success", << <<"out">> >> >> >>

\* the exact difference max - min is a value of the sample type
RangeFits == ~IsInteger(LoadedType) \/ LoadedMax - LoadedMin <= TypeMax(LoadedType)

Abs(x) == IF x < 0 THEN -x ELSE x

\* C1: when max > min, every pixel of the normalized volume lies in [0, 255],
\* every sample equal to the minimum becomes 0 and every sample equal to the
\* maximum becomes 255, for every sample type.
C1_MinToZeroMaxTo255 ==
    (IsNormalized /\ LoadedMax > LoadedMin) =>
        \A v \in Voxels(Loaded) :
            /\ At(np_image.data, v) \in 0..255
            /\ At(Loaded, v) = LoadedMin => At(np_image.data, v) = 0
            /\ At(Loaded, v) = LoadedMax => At(np_image.data, v) = 255

\* C2 as claimed, on the volumes whose range max - min fits the sample type:
\* every pixel is the integer nearest to (v - min) / (max - min) * 255.
C2_RoundsToNearest ==
    (IsNormalized /\ LoadedMax > LoadedMin /\ RangeFits) =>
        \A v \in Voxels(Loaded) :
            2 * Abs(At(np_image.data, v) * (LoadedMax - LoadedMin)
                    - (At(Loaded, v) - LoadedMin) * 255)
                <= LoadedMax - LoadedMin

\* C2 amended: when max > min, every pixel is (v - min) / (max - min) * 255 with
\* its fraction dropped (the largest integer not above it), not the nearest
\* integer; when max - min does not fit a signed sample type, every pixel is 0.
C2_DropsFraction ==
    (IsNormalized /\ LoadedMax > LoadedMin) =>
        \A v \in Voxels(Loaded) :
            LET pixel == At(np_image.data, v)
                num   == (At(Loaded, v) - LoadedMin) * 255
                den   == LoadedMax - LoadedMin
            IN  IF RangeFits
                THEN pixel * den <= num /\ num < (pixel + 1) * den
                ELSE pixel = 0

\* a sample strictly between min and max whose rescaled value has a fraction of
\* one half or more has been normalized
C2_Witness ==
    /\ IsNormalized /\ LoadedMax > LoadedMin /\ RangeFits
    /\ \E v \in Voxels(Loaded) :
          /\ LoadedMin < At(Loaded, v) /\ At(Loaded, v) < LoadedMax
          /\ 2 * (((At(Loaded, v) - LoadedMin) * 255) % (LoadedMax - LoadedMin))
                >= LoadedMax - LoadedMin
          /\ At(np_image.data, v) > 0

\* the extent of the loaded volume along the fixed axis of the p-th plane
Extent(p) == tree[1].content.shape[p]

\* the 2D array obtained from the 3D array N by fixing the axis of the p-th
\* plane at i (counted from 0), given pixel by pixel
SubArray(p, N, i) ==
    CASE p = 1 -> [r \in 1..Height(N) |-> [c \in 1..Width(N)  |-> N[i + 1][r][c]]]
      [] p = 2 -> [r \in 1..Depth(N)  |-> [c \in 1..Width(N)  |-> N[r][i + 1][c]]]
      [] p = 3 -> [r \in 1..Depth(N)  |-> [c \in 1..Height(N) |-> N[r][c][i + 1]]]

\* how many slices of the p-th plane the loops have written so far
WrittenCount(p) ==
    IF spc = "idle" THEN Extent(p)
    ELSE IF spc \in {"read", "normalize"} \/ p > planeIdx THEN 0
    ELSE IF p < planeIdx THEN Extent(p)
    ELSE IF spc = "slice" THEN sliceIdx ELSE 0

FilesOfPlane(p) == {e \in files : e[1][Len(e[1]) - 1] = <<planes[p]>>}

Rows(img) == Len(img)
Cols(img) == Len(img[1])

\* C3: for a volume of shape (D, H, W) sliced without error, the files are
\* exactly axial/slice_<i>.png for i < D, coronal/slice_<i>.png for i < H and
\* sagittal/slice_<i>.png for i < W, written in ascending order of i without a
\* gap or a repeat, image i being the sub-array at index i of the plane's axis,
\* of shape (H, W), (D, W) and (D, H).
C3_SlicesPerPlane ==
    LET N == Normalize([dtype |-> LoadedType, data |-> Loaded]).data
        expected(p) ==
            {<< << <<"out">>, <<planes[p]>>, SliceFileName(i) >>, SubArray(p, N, i) >> :
                i \in 0..(WrittenCount(p) - 1)}
    IN  /\ files = expected(1) \cup expected(2) \cup expected(3)
        /\ \A p \in 1..3 : Cardinality(FilesOfPlane(p)) = WrittenCount(p)
        /\ \A e \in FilesOfPlane(1) :
              Rows(e[2]) = Extent(2) /\ \A r \in 1..Rows(e[2]) : Len(e[2][r]) = Extent(3)
        /\ \A e \in FilesOfPlane(2) :
              Rows(e[2]) = Extent(1) /\ \A r \in 1..Rows(e[2]) : Len(e[2][r]) = Extent(3)
        /\ \A e \in FilesOfPlane(3) :
              Rows(e[2]) = Extent(1) /\ \A r \in 1..Rows(e[2]) : Len(e[2][r]) = Extent(2)

\* a volume whose three extents differ in some pair has been sliced completely
C3_Witness ==
    /\ SliceSucceeded
    /\ Extent(1) # Extent(2) /\ Extent(2) # Extent(3)
    /\ LoadedMax > LoadedMin
    /\ Cardinality(files) = Extent(1) + Extent(2) + Extent(3)

\* C9: for a volume whose maximum equals its minimum, every pixel of every
\* written slice is 0, and once slice_image is done each plane holds as many
\* slices as the volume's extent along its axis, of the shape of that plane.
C9_DegenerateAllZero ==
    (LoadedMax = LoadedMin) =>
        /\ \A e \in files :
              \A r \in 1..Rows(e[2]) : \A c \in 1..Len(e[2][r]) : e[2][r][c] = 0
        /\ IsNormalized => \A v \in Voxels(Loaded) : At(np_image.data, v) = 0
        /\ SliceSucceeded =>
              /\ \A p \in 1..3 : Cardinality(FilesOfPlane(p)) = Extent(p)
              /\ \A e \in FilesOfPlane(1) : Rows(e[2]) = Extent(2) /\ Cols(e[2]) = Extent(3)
              /\ \A e \in FilesOfPlane(2) : Rows(e[2]) = Extent(1) /\ Cols(e[2]) = Extent(3)
              /\ \A e \in FilesOfPlane(3) : Rows(e[2]) = Extent(1) /\ Cols(e[2]) = Extent(2)

\* a uniform volume of a non-zero intensity and more than one voxel has been
\* sliced completely
C9_Witness ==
    /\ SliceSucceeded
    /\ LoadedMax = LoadedMin /\ LoadedMax # 0
    /\ Cardinality(files) > 3

-----------------------------------------------------------------------------
(* Properties of process_dataset, checked under Spec *)

InAnat(f) == \E k \in 1..Len(RootOf(f)) : RootOf(f)[k] = <<"anat">>
InDwi(f) == \E k \in 1..Len(RootOf(f)) : RootOf(f)[k] = <<"dwi">>
FlairName(f) ==
    Len(f.name) >= 2 /\ f.name[Len(f.name) - 1] = "_FLAIR" /\ f.name[Len(f.name)] = ".nii.gz"
DwiName(f) ==
    Len(f.name) >= 2 /\ f.name[Len(f.name) - 1] = "_dwi" /\ f.name[Len(f.name)] = ".nii.gz"

\* the files slice_image was called on
DispatchedFiles == {tree[dispatched[n].file] : n \in 1..Len(dispatched)}

\* the files the walk of this run has passed without calling slice_image
SkippedFiles ==
    {tree[k] : k \in {j \in 1..Len(tree) : j < idx /\ tree[j] \notin DispatchedFiles}}

\* C4 as claimed: a file under an anat directory whose name does not end in
\* _FLAIR.nii.gz is never dispatched to slice_image, and neither is a file
\* whose name ends in _FLAIR.nii.gz outside every anat directory.
C4_NeverDispatched ==
    \A f \in DispatchedFiles :
        /\ ~(InAnat(f) /\ ~FlairName(f))
        /\ ~(FlairName(f) /\ ~InAnat(f))

\* C4 amended: a file under an anat directory whose name does not end in
\* _FLAIR.nii.gz is dispatched only as a DWI match (a dwi component in its
\* directory path and a name ending in _dwi.nii.gz); a file whose name ends in
\* _FLAIR.nii.gz outside every anat directory is never dispatched.
C4_OnlyDwiOutsideFlair ==
    \A f \in DispatchedFiles :
        /\ (InAnat(f) /\ ~FlairName(f)) => (InDwi(f) /\ DwiName(f))
        /\ ~(FlairName(f) /\ ~InAnat(f))

\* the walk has passed, without dispatching them, a non-FLAIR file under anat
\* and a FLAIR file outside anat
C4_Witness ==
    /\ wpc = "complete"
    /\ \E f \in SkippedFiles : InAnat(f) /\ ~FlairName(f)
    /\ \E f \in SkippedFiles : FlairName(f) /\ ~InAnat(f)

\* how often slice_image was called on the k-th file in the current run
DispatchCount(k) ==
    Cardinality({n \in 1..Len(dispatched) :
                    dispatched[n].run = run /\ dispatched[n].file = k})

ErrorLogged(path) == \E n \in 1..Len(log) : log[n] = <<"error", path>>

\* C5: a failure inside slice_image never ends the walk. process_dataset ends
\* early only when os.makedirs of line 109 raised, before slice_image was called
\* for that file; until then every target the walk has passed was dispatched
\* exactly once and no other file was, the walk can always take its next step,
\* and it ends at line 114 with every target of the tree dispatched exactly once.
C5_FailuresIsolated ==
    /\ wpc = "aborted" =>
          /\ spc = "idle"
          /\ idx \in 1..Len(tree)
          /\ log[Len(log)] = <<"found", FilePath(tree[idx])>>
          /\ DispatchCount(idx) = 0
    /\ wpc \in {"walk", "complete", "aborted"} =>
          \A k \in 1..Len(tree) :
              DispatchCount(k) = IF k < idx /\ IsTarget(tree[k]) THEN 1 ELSE 0
    /\ wpc \in {"check", "walk"} => ENABLED Next
    /\ wpc = "complete" =>
          /\ spc = "idle"
          /\ idx = Len(tree) + 1
          /\ log[Len(log)] = <<"complete", <<>>>>

\* a run whose first target failed inside slice_image dispatched a second target
\* and reached line 114
C5_Witness ==
    /\ wpc = "complete" /\ run = "first"
    /\ Len(dispatched) = 2
    /\ ErrorLogged(dispatched[1].path)
    /\ ~ErrorLogged(dispatched[2].path)
    /\ files # {}

\* C6: the folder passed to slice_image is
\* <output_root>/<directory relative to input_root>/<name>_slices, <name> being
\* the file name without its trailing .nii.gz and otherwise unchanged.
C6_OnlyTrailingSuffixRemoved ==
    \A n \in 1..Len(dispatched) :
        LET f    == tree[dispatched[n].file]
            stem == SubSeq(f.name, 1, Len(f.name) - 1)
        IN  /\ f.name[Len(f.name)] = ".nii.gz"
            /\ Resolve(dispatched[n].folder)
                  = OutputRoot \o f.dir \o << stem \o <<"_slices">> >>

\* C7: a second run on the same input and output roots, from the output the
\* first run left and with no I/O failure in either, is not stopped by the
\* directories that exist already, prints what the first run printed, and
\* leaves the directories, the files and their contents as the first run did.
C7_SecondRunIdentical ==
    (run = "second" /\ failures = 0) =>
        /\ wpc # "aborted"
        /\ wpc = "complete" =>
              /\ files = firstRun.files
              /\ dirs = firstRun.dirs
              /\ log = firstRun.log

\* a second run over a tree with a target has completed
C7_Witness ==
    /\ run = "second" /\ wpc = "complete" /\ failures = 0
    /\ files # {}
    /\ \E n \in 1..Len(dispatched) : dispatched[n].run = "second"

\* C8: the step in which slice_image fails ends that call and changes no
\* directory and no file (nothing is rolled back, nothing more is written);
\* while slice_image is not running no file changes; and no step removes a file.
C8_StopsWithoutRollback ==
    [][/\ (spc # "idle" /\ log' = Append(log, <<"error", input_path>>)) =>
              (spc' = "idle" /\ files' = files /\ dirs' = dirs /\ wpc' = wpc)
       /\ spc = "idle" => files' = files
       /\ \A e \in files : \E e2 \in files' : e2[1] = e[1]]_vars

\* the only call of the run failed after it had written some, but not all, of
\* its slices
C8_Witness ==
    /\ run = "first" /\ spc = "idle"
    /\ Len(dispatched) = 1
    /\ ErrorLogged(dispatched[1].path)
    /\ files # {}
    /\ LET shape == tree[dispatched[1].file].content.shape
       IN  Cardinality(files) < shape[1] + shape[2] + shape[3]

\* C10: when the input root is no directory, process_dataset prints the error
\* once and does nothing else: no file is visited, slice_image is not called,
\* nothing is created, the completion message is not printed, and it returns
\* normally.
C10_MissingInputRejected ==
    ~inputIsDir =>
        /\ wpc \in {"check", "rejected"}
        /\ wpc = "check" => log = <<>>
        /\ wpc = "rejected" => log = << <<"not found", inputRoot>> >>
        /\ run = "first" /\ idx = 0 /\ spc = "idle"
        /\ dispatched = <<>> /\ dirs = {} /\ files = {}

\* process_dataset has returned from line 81
C10_Witness == ~inputIsDir /\ wpc = "rejected"

====
